---------------------------- MODULE Spec2Model ----------------------------
(***************************************************************************)
(* Model of the planewave mount daemon's configuration loader              *)
(* (rockit/mount/planewave/config.py) and of its status / state lookup     *)
(* tables (rockit/mount/planewave/constants.py and the older               *)
(* warwick/observatory/lmount/constants.py).                               *)
(*                                                                         *)
(* SpecLoad  : Config.__init__ run statement by statement on one file.     *)
(* SpecConst : calls of CommandStatus.message and MountState.label.        *)
(***************************************************************************)
EXTENDS Integers, Sequences, FiniteSets, TLC

VARIABLES
    file,         \* what is on disk at config_filename: "missing", "malformed", "json"
    doc,          \* the JSON value the file holds (read when file = "json")
    pc,           \* position of Config.__init__
    config_json,  \* local variable config_json
    self,         \* attributes assigned on the Config instance so far
    error,        \* the exception that left __init__ ("none" while none has)
    returned,     \* TRUE once the caller holds the Config instance
    stages,       \* history: the stages __init__ has entered, in order
    call          \* the last call of message / label with its return value

loadVars == <<file, doc, pc, config_json, self, error, returned, stages>>
vars == <<file, doc, pc, config_json, self, error, returned, stages, call>>

----------------------------------------------------------------------------
(* Bounds *)

\* A document differs from the reference document in at most MaxFaults members.
MaxFaults == 2
\* message is called with the codes -MaxCode..MaxCode and 9999
MaxCode == 110
\* label is called with the states -MaxStatus..MaxStatus and 99
MaxStatus == 8

----------------------------------------------------------------------------
(* JSON values as json.load returns them.  Every value is a node           *)
(*   type  : "string" | "integer" (a Python int) | "number" (a Python      *)
(*           float, here always the non-integral num + 1/2) | "array" |    *)
(*           "object"                                                      *)
(*   str   : the text of a string                                          *)
(*   num   : the integer part of a number                                  *)
(*   items : the elements of an array, or the members of an object         *)
(*   key   : the member name when the node is a member of an object        *)

JStr(k, s) == [type |-> "string", str |-> s, num |-> 0, items |-> <<>>, key |-> k]
JInt(k, n) == [type |-> "integer", str |-> "", num |-> n, items |-> <<>>, key |-> k]
JFloat(k, n) == [type |-> "number", str |-> "", num |-> n, items |-> <<>>, key |-> k]
JArray(k, xs) == [type |-> "array", str |-> "", num |-> 0, items |-> xs, key |-> k]
JObject(k, ms) == [type |-> "object", str |-> "", num |-> 0, items |-> ms, key |-> k]

Keys(v) == {v.items[i].key : i \in 1..Len(v.items)}
Has(v, k) == v.type = "object" /\ k \in Keys(v)
Get(v, k) == v.items[CHOOSE i \in 1..Len(v.items) : v.items[i].key = k]

IsNumber(v) == v.type \in {"integer", "number"}
\* value >= m and value <= m for an integer m; a "number" node is num + 1/2
NumGeq(v, m) == v.num >= m
NumLeq(v, m) == IF v.type = "number" THEN v.num < m ELSE v.num <= m


----------------------------------------------------------------------------
(* External name registries (rockit.common.daemons, rockit.common.IP):     *)
(* name -> handle.                                                          *)

daemons == ("planewave_mount" :> "daemon<planewave_mount>") @@
           ("test_mount" :> "daemon<test_mount>")

IP == ("host_a" :> "ip<host_a>") @@ ("host_b" :> "ip<host_b>")

\* getattr(registry, name) raises AttributeError unless the name is an attribute
HasAttr(registry, name) == name \in DOMAIN registry
GetAttr(registry, name) == registry[name]

\* The custom validators handed to validate_config: a schema error unless the
\* instance names a daemon / a machine of the registry.
daemon_name_validator(v) == v.type = "string" /\ HasAttr(daemons, v.str)
machine_name_validator(v) == v.type = "string" /\ HasAttr(IP, v.str)

----------------------------------------------------------------------------
(* JSON Schema keywords as the validation engine applies them: a keyword   *)
(* constrains only the instances of the type it is about.                  *)

Type(v, t) == IF t = "number" THEN IsNumber(v) ELSE v.type = t
Minimum(v, m) == IsNumber(v) => NumGeq(v, m)
MinItems(v, n) == v.type = "array" => Len(v.items) >= n
MaxItems(v, n) == v.type = "array" => Len(v.items) <= n
\* 'items': the elements the item schema applies to
Items(v) == IF v.type = "array" THEN {v.items[i] : i \in 1..Len(v.items)} ELSE {}
Required(v, ks) == v.type = "object" => ks \subseteq Keys(v)
\* 'additionalProperties': False with the listed 'properties'
NoAdditionalProperties(v, props) == v.type = "object" => Keys(v) \subseteq props
\* 'additionalProperties': {schema} with no 'properties': the members the
\* schema applies to, which is all of them
AdditionalProperties(v) ==
    IF v.type = "object" THEN {v.items[i] : i \in 1..Len(v.items)} ELSE {}
\* 'properties': the value a property's schema applies to, if the member is there
Property(v, k) == IF Has(v, k) THEN {Get(v, k)} ELSE {}
\* 'min' and 'max' are not keywords of JSON Schema ('minimum' and 'maximum'
\* are): the engine has no validator for them and skips them.
KwMin(v, m) == TRUE
KwMax(v, m) == TRUE

----------------------------------------------------------------------------
(* CONFIG_SCHEMA, property by property *)

\* 'required' with park_positions left out of the list
RequiredKeys_partial ==
    {"daemon", "log_name", "control_machines", "pwi_host", "pwi_port", "pwi_timeout",
     "slew_timeout", "slew_poll_interval", "home_timeout", "home_poll_interval",
     "ha_soft_limits", "dec_soft_limits"}

RequiredKeys ==
    {"daemon", "log_name", "control_machines", "pwi_host", "pwi_port", "pwi_timeout",
     "slew_timeout", "slew_poll_interval", "home_timeout", "home_poll_interval",
     "ha_soft_limits", "dec_soft_limits", "park_positions"}

PropertyKeys ==
    {"daemon", "log_name", "control_machines", "pwi_host", "pwi_port", "pwi_timeout",
     "slew_timeout", "slew_poll_interval", "home_timeout", "home_poll_interval",
     "ha_soft_limits", "dec_soft_limits", "park_positions"}

\* the daemon property without 'daemon_name': True
Schema_daemon_unchecked(v) == Type(v, "string")
Schema_daemon(v) == Type(v, "string") /\ daemon_name_validator(v)
Schema_log_name(v) == Type(v, "string")
Schema_machine(v) == Type(v, "string") /\ machine_name_validator(v)
Schema_control_machines(v) == Type(v, "array") /\ (\A x \in Items(v) : Schema_machine(x))
\* the pwi_host property without 'type': 'string'
Schema_pwi_host_untyped(v) == TRUE
Schema_pwi_host(v) == Type(v, "string")
Schema_pwi_port(v) == Type(v, "integer")
Schema_pwi_timeout(v) == Type(v, "number") /\ Minimum(v, 0)
Schema_slew_timeout(v) == Type(v, "number") /\ Minimum(v, 0)
Schema_slew_poll_interval(v) == Type(v, "number") /\ Minimum(v, 0)
Schema_home_timeout(v) == Type(v, "number") /\ Minimum(v, 0)
Schema_home_poll_interval(v) == Type(v, "number") /\ Minimum(v, 0)
Schema_ha_item(v) == Type(v, "number") /\ KwMin(v, -180) /\ KwMax(v, 180)
Schema_ha_soft_limits(v) ==
    /\ Type(v, "array") /\ MaxItems(v, 2) /\ MinItems(v, 2)
    /\ \A x \in Items(v) : Schema_ha_item(x)
Schema_dec_item(v) == Type(v, "number") /\ KwMin(v, -90) /\ KwMax(v, 90)
Schema_dec_soft_limits(v) ==
    /\ Type(v, "array") /\ MaxItems(v, 2) /\ MinItems(v, 2)
    /\ \A x \in Items(v) : Schema_dec_item(x)
Schema_desc(v) == Type(v, "string")
Schema_alt(v) == Type(v, "number") /\ KwMin(v, 0) /\ KwMax(v, 90)
Schema_az(v) == Type(v, "number") /\ KwMin(v, 0) /\ KwMax(v, 360)
Schema_park_position(v) ==
    /\ Type(v, "object")
    /\ NoAdditionalProperties(v, {"desc", "alt", "az"})
    /\ Required(v, {"desc", "alt", "az"})
    /\ (\A x \in Property(v, "desc") : Schema_desc(x))
    /\ (\A x \in Property(v, "alt") : Schema_alt(x))
    /\ (\A x \in Property(v, "az") : Schema_az(x))
Schema_park_positions(v) ==
    Type(v, "object") /\ (\A x \in AdditionalProperties(v) : Schema_park_position(x))

\* validation.validate_config(config_json, CONFIG_SCHEMA, {...}) raises nothing
validate_config(v) ==
    /\ Type(v, "object")
    /\ NoAdditionalProperties(v, PropertyKeys)
    /\ Required(v, RequiredKeys)
    /\ (\A x \in Property(v, "daemon") : Schema_daemon(x))
    /\ (\A x \in Property(v, "log_name") : Schema_log_name(x))
    /\ (\A x \in Property(v, "control_machines") : Schema_control_machines(x))
    /\ (\A x \in Property(v, "pwi_host") : Schema_pwi_host(x))
    /\ (\A x \in Property(v, "pwi_port") : Schema_pwi_port(x))
    /\ (\A x \in Property(v, "pwi_timeout") : Schema_pwi_timeout(x))
    /\ (\A x \in Property(v, "slew_timeout") : Schema_slew_timeout(x))
    /\ (\A x \in Property(v, "slew_poll_interval") : Schema_slew_poll_interval(x))
    /\ (\A x \in Property(v, "home_timeout") : Schema_home_timeout(x))
    /\ (\A x \in Property(v, "home_poll_interval") : Schema_home_poll_interval(x))
    /\ (\A x \in Property(v, "ha_soft_limits") : Schema_ha_soft_limits(x))
    /\ (\A x \in Property(v, "dec_soft_limits") : Schema_dec_soft_limits(x))
    /\ (\A x \in Property(v, "park_positions") : Schema_park_positions(x))

----------------------------------------------------------------------------
(* The files Config.__init__ is run on *)

ParkPosition(name, desc, alt, az) ==
    JObject(name, <<JStr("desc", desc), alt, az>>)

ReferenceDoc ==
    JObject("", <<
        JStr("daemon", "planewave_mount"),
        JStr("log_name", "mount_log"),
        JArray("control_machines", <<JStr("", "host_a")>>),
        JStr("pwi_host", "10.0.0.5"),
        JInt("pwi_port", 8220),
        JInt("pwi_timeout", 5),
        JInt("slew_timeout", 60),
        JInt("slew_poll_interval", 1),
        JInt("home_timeout", 120),
        JFloat("home_poll_interval", 1),
        JArray("ha_soft_limits", <<JInt("", -170), JInt("", 170)>>),
        JArray("dec_soft_limits", <<JInt("", -85), JInt("", 85)>>),
        JObject("park_positions",
                <<ParkPosition("default", "Home park", JInt("alt", 45), JInt("az", 180))>>)
    >>)

\* Other values a member can have: valid ones, boundary ones and invalid ones
Alternatives ==
    {JStr("daemon", "test_mount"), JStr("daemon", "no_such_daemon"), JInt("daemon", 42),
     JStr("log_name", ""), JInt("log_name", 1),
     JArray("control_machines", <<>>),
     JArray("control_machines", <<JStr("", "host_b"), JStr("", "host_a")>>),
     JArray("control_machines", <<JStr("", "host_a"), JStr("", "no_such_host")>>),
     JArray("control_machines", <<JInt("", 7)>>),
     JStr("control_machines", "host_a"),
     JStr("pwi_host", ""), JInt("pwi_host", 10),
     JFloat("pwi_port", 8220), JStr("pwi_port", "8220"),
     JInt("pwi_timeout", 0), JInt("pwi_timeout", -1), JFloat("pwi_timeout", -1),
     JStr("pwi_timeout", "5"),
     JInt("slew_timeout", 0), JInt("slew_timeout", -1),
     JInt("slew_poll_interval", 0), JInt("slew_poll_interval", -1),
     JInt("home_timeout", 0), JInt("home_timeout", -1),
     JInt("home_poll_interval", 0), JInt("home_poll_interval", -1),
     JArray("ha_soft_limits", <<JInt("", -180), JInt("", 180)>>),
     JArray("ha_soft_limits", <<JInt("", -181), JInt("", 170)>>),
     JArray("ha_soft_limits", <<JInt("", -170), JFloat("", 180)>>),
     JArray("ha_soft_limits", <<JInt("", -170)>>),
     JArray("ha_soft_limits", <<JInt("", -170), JInt("", 0), JInt("", 170)>>),
     JArray("ha_soft_limits", <<JStr("", "-170"), JInt("", 170)>>),
     JArray("dec_soft_limits", <<JInt("", -90), JInt("", 90)>>),
     JArray("dec_soft_limits", <<JFloat("", -91), JInt("", 85)>>),
     JArray("dec_soft_limits", <<JInt("", -85), JInt("", 91)>>),
     JArray("dec_soft_limits", <<>>),
     JObject("park_positions", <<>>),
     JObject("park_positions",
             <<ParkPosition("zenith", "", JInt("alt", 90), JInt("az", 360)),
               ParkPosition("stow", "Stow", JInt("alt", 0), JFloat("az", 0))>>),
     JObject("park_positions",
             <<ParkPosition("default", "Home park", JInt("alt", 91), JInt("az", 180))>>),
     JObject("park_positions",
             <<ParkPosition("default", "Home park", JInt("alt", -1), JInt("az", 180))>>),
     JObject("park_positions",
             <<ParkPosition("default", "Home park", JInt("alt", 45), JInt("az", 361))>>),
     JObject("park_positions",
             <<ParkPosition("default", "Home park", JInt("alt", 45), JInt("az", 180)),
               ParkPosition("low", "Low", JInt("alt", 10), JFloat("az", -1))>>),
     JObject("park_positions", <<JObject("default", <<JInt("alt", 45), JInt("az", 180)>>)>>),
     JObject("park_positions",
             <<JObject("default", <<JStr("desc", "Home park"), JInt("alt", 45),
                                    JInt("az", 180), JInt("speed", 1)>>)>>),
     JObject("park_positions",
             <<ParkPosition("default", "Home park", JStr("alt", "45"), JInt("az", 180))>>),
     JArray("park_positions", <<>>),
     JStr("comment", "not a listed key")}

\* An edit of the reference document: a member set (replaced, or added when the
\* key is new) or a member deleted
Edits ==
    {[op |-> "set", node |-> n] : n \in Alternatives} \cup
    {[op |-> "del", node |-> JStr(k, "")] : k \in Keys(ReferenceDoc)}

Without(ms, k) == SelectSeq(ms, LAMBDA m : m.key # k)

Apply(d, e) ==
    IF e.op = "del"
    THEN [d EXCEPT !.items = Without(d.items, e.node.key)]
    ELSE IF e.node.key \in Keys(d)
         THEN [d EXCEPT !.items =
                 [i \in 1..Len(d.items) |->
                     IF d.items[i].key = e.node.key THEN e.node ELSE d.items[i]]]
         ELSE [d EXCEPT !.items = Append(d.items, e.node)]

\* The documents that differ from d in at most n members
RECURSIVE Edited(_, _)
Edited(d, n) ==
    IF n = 0 THEN {d}
    ELSE LET prev == Edited(d, n - 1)
         IN  prev \cup {Apply(x, e) : x \in prev, e \in Edits}

\* The top level of a JSON file need not be an object
Documents == Edited(ReferenceDoc, MaxFaults) \cup {JArray("", <<>>)}

----------------------------------------------------------------------------
(* Config.__init__(config_filename), one action per statement *)

\* The attributes in the order __init__ assigns them
Attributes ==
    <<"daemon", "log_name", "control_ips", "pwi_host", "pwi_port", "pwi_timeout",
      "slew_timeout", "slew_poll_interval", "home_timeout", "home_poll_interval",
      "ha_soft_limits", "dec_soft_limits", "park_positions">>

\* The attributes assigned as self.<key> = config_json['<key>']
CopiedAttributes ==
    {"log_name", "pwi_host", "pwi_port", "pwi_timeout", "slew_timeout",
     "slew_poll_interval", "home_timeout", "home_poll_interval", "ha_soft_limits",
     "dec_soft_limits", "park_positions"}

IndexOf(a) == CHOOSE i \in 1..Len(Attributes) : Attributes[i] = a
After(a) == IF IndexOf(a) = Len(Attributes) THEN "return" ELSE Attributes[IndexOf(a) + 1]

None == [type |-> "null", str |-> "", num |-> 0, items |-> <<>>, key |-> ""]
NoAttributes == [a \in {} |-> None]
NoCall ==
    [fn |-> "none", variant |-> "none", arg |-> 0, formatting |-> FALSE,
     raised |-> "none", ret |-> ""]

\* config_json[k]: the exception the subscript raises, "none" when it raises none
SubscriptError(v, k) ==
    IF v.type # "object" THEN "TypeError"
    ELSE IF k \notin Keys(v) THEN "KeyError"
    ELSE "none"

\* getattr(registry, name) for a JSON value: the exception it raises
GetAttrError(registry, v) ==
    IF v.type # "string" THEN "TypeError"
    ELSE IF ~HasAttr(registry, v.str) THEN "AttributeError"
    ELSE "none"

\* [getattr(IP, machine) for machine in v]: the exception of the first element
\* that raises one.  Iterating a string yields its characters, none of them a
\* machine name; a number is not iterable.
ControlIpsError(v) ==
    IF v.type = "string" THEN (IF v.str = "" THEN "none" ELSE "AttributeError")
    ELSE IF v.type # "array" THEN "TypeError"
    ELSE IF \A i \in 1..Len(v.items) : GetAttrError(IP, v.items[i]) = "none" THEN "none"
    ELSE GetAttrError(IP, v.items[CHOOSE i \in 1..Len(v.items) :
                                      /\ GetAttrError(IP, v.items[i]) # "none"
                                      /\ \A j \in 1..(i - 1) :
                                            GetAttrError(IP, v.items[j]) = "none"])

ControlIps(v) ==
    IF v.type = "array"
    THEN [i \in 1..Len(v.items) |-> GetAttr(IP, v.items[i].str)]
    ELSE <<>>

Raise(e) ==
    /\ pc' = "failed"
    /\ error' = e

InitLoad ==
    /\ file \in {"missing", "malformed", "json"}
    /\ doc \in (IF file = "json" THEN Documents ELSE {ReferenceDoc})
    /\ pc = "open"
    /\ config_json = None
    /\ self = NoAttributes
    /\ error = "none"
    /\ returned = FALSE
    /\ stages = <<>>
    /\ call = NoCall

\* with open(config_filename, 'r') as config_file:
OpenFile ==
    /\ pc = "open"
    /\ stages' = Append(stages, "open")
    /\ IF file = "missing"
       THEN Raise("FileNotFoundError")
       ELSE pc' = "parse" /\ error' = error
    /\ UNCHANGED <<file, doc, config_json, self, returned, call>>

\* config_json = json.load(config_file)
ParseJson ==
    /\ pc = "parse"
    /\ stages' = Append(stages, "parse")
    /\ IF file = "malformed"
       THEN Raise("JSONDecodeError") /\ config_json' = config_json
       ELSE pc' = "validate" /\ error' = error /\ config_json' = doc
    /\ UNCHANGED <<file, doc, self, returned, call>>

\* __init__ going on whatever validate_config finds
Validate_unchecked ==
    /\ pc = "validate"
    /\ stages' = Append(stages, "validate")
    /\ pc' = Attributes[1]
    /\ UNCHANGED <<file, doc, config_json, self, error, returned, call>>

\* validation.validate_config(config_json, CONFIG_SCHEMA, {...})
Validate ==
    /\ pc = "validate"
    /\ stages' = Append(stages, "validate")
    /\ IF validate_config(config_json)
       THEN pc' = Attributes[1] /\ error' = error
       ELSE Raise("SchemaViolation")
    /\ UNCHANGED <<file, doc, config_json, self, returned, call>>

\* self.daemon = getattr(daemons, config_json['daemon'])
AssignDaemon ==
    /\ pc = "daemon"
    /\ LET e1 == SubscriptError(config_json, "daemon")
           e2 == GetAttrError(daemons, Get(config_json, "daemon"))
       IN  IF e1 # "none"
           THEN Raise(e1) /\ UNCHANGED <<self, stages>>
           ELSE IF e2 # "none"
           THEN Raise(e2) /\ stages' = Append(stages, "resolve") /\ self' = self
           ELSE /\ self' = ("daemon" :> GetAttr(daemons, Get(config_json, "daemon").str)) @@ self
                /\ stages' = stages \o <<"resolve", "assign">>
                /\ pc' = After("daemon")
                /\ error' = error
    /\ UNCHANGED <<file, doc, config_json, returned, call>>

\* self.control_ips = [getattr(IP, machine) for machine in config_json['control_machines']]
AssignControlIps ==
    /\ pc = "control_ips"
    /\ LET e1 == SubscriptError(config_json, "control_machines")
           e2 == ControlIpsError(Get(config_json, "control_machines"))
       IN  IF e1 # "none"
           THEN Raise(e1) /\ UNCHANGED <<self, stages>>
           ELSE IF e2 # "none"
           THEN Raise(e2) /\ stages' = Append(stages, "resolve") /\ self' = self
           ELSE /\ self' = ("control_ips" :> ControlIps(Get(config_json, "control_machines")))
                              @@ self
                /\ stages' = stages \o <<"resolve", "assign">>
                /\ pc' = After("control_ips")
                /\ error' = error
    /\ UNCHANGED <<file, doc, config_json, returned, call>>

\* self.home_timeout assigned from config_json['slew_timeout']
CopyField_pasted(a) ==
    /\ pc = a
    /\ LET k == IF a = "home_timeout" THEN "slew_timeout" ELSE a
           e1 == SubscriptError(config_json, k)
       IN  IF e1 # "none"
           THEN Raise(e1) /\ UNCHANGED <<self, stages>>
           ELSE /\ self' = (a :> Get(config_json, k)) @@ self
                /\ stages' = Append(stages, "assign")
                /\ pc' = After(a)
                /\ error' = error
    /\ UNCHANGED <<file, doc, config_json, returned, call>>

\* self.<a> = config_json['<a>']
CopyField(a) ==
    /\ pc = a
    /\ LET e1 == SubscriptError(config_json, a)
       IN  IF e1 # "none"
           THEN Raise(e1) /\ UNCHANGED <<self, stages>>
           ELSE /\ self' = (a :> Get(config_json, a)) @@ self
                /\ stages' = Append(stages, "assign")
                /\ pc' = After(a)
                /\ error' = error
    /\ UNCHANGED <<file, doc, config_json, returned, call>>

\* __init__ ends: the caller of Config(...) receives the instance
Return ==
    /\ pc = "return"
    /\ pc' = "done"
    /\ returned' = TRUE
    /\ UNCHANGED <<file, doc, config_json, self, error, stages, call>>

NextLoad ==
    \/ OpenFile
    \/ ParseJson
    \/ Validate
    \/ AssignDaemon
    \/ AssignControlIps
    \/ \E a \in CopiedAttributes : CopyField(a)
    \/ Return

SpecLoad == InitLoad /\ [][NextLoad]_vars

----------------------------------------------------------------------------
(* constants.py.  Variant "rockit" is rockit/mount/planewave/constants.py  *)
(* (five mount states), variant "warwick" is                               *)
(* warwick/observatory/lmount/constants.py (four mount states).            *)

Variants == {"rockit", "warwick"}

\* Terminal formatting strings of the common package's TFmt
TFmt_Bold == "ESC[1m"
TFmt_Red == "ESC[31m"
TFmt_Green == "ESC[32m"
TFmt_Yellow == "ESC[33m"
TFmt_Clear == "ESC[0m"

\* CommandStatus._messages
messages_rockit ==
    (1 :> "error: command failed") @@
    (2 :> "error: another command is already running") @@
    (5 :> "error: command not accepted from this IP") @@
    (9 :> "error: PWI4 software is not running") @@
    (10 :> "error: mount has not been initialized") @@
    (11 :> "error: mount has not been homed") @@
    (14 :> "error: mount has already been initialized") @@
    (15 :> "error: unknown park position") @@
    (20 :> "error: requested coordinates outside HA limits") @@
    (21 :> "error: requested coordinates outside Dec limits") @@
    (-100 :> "error: terminated by user") @@
    (-101 :> "error: unable to communicate with telescope daemon") @@
    (-102 :> "error: command not available for this telescope")

messages_warwick ==
    (1 :> "error: command failed") @@
    (2 :> "error: another command is already running") @@
    (5 :> "error: command not accepted from this IP") @@
    (9 :> "error: PWI4 software is not running") @@
    (10 :> "error: mount has not been initialized") @@
    (11 :> "error: mount has not been homed") @@
    (12 :> "error: mount is not stopped") @@
    (14 :> "error: mount has already been initialized") @@
    (20 :> "error: requested coordinates outside HA limits") @@
    (21 :> "error: requested coordinates outside Dec limits") @@
    (-100 :> "error: terminated by user") @@
    (-101 :> "error: unable to communicate with telescope daemon") @@
    (-102 :> "error: command not available for this telescope")

messages(variant) == IF variant = "rockit" THEN messages_rockit ELSE messages_warwick

\* The text Python puts for an int in an f-string / str.format
Digit(d) == <<"0", "1", "2", "3", "4", "5", "6", "7", "8", "9">>[d + 1]
RECURSIVE FormatNat(_)
FormatNat(n) == IF n < 10 THEN Digit(n) ELSE FormatNat(n \div 10) \o Digit(n % 10)
\* the numeral of |n|, the sign lost
FormatInt_unsigned(n) == IF n < 0 THEN FormatNat(-n) ELSE FormatNat(n)
FormatInt(n) == IF n < 0 THEN "-" \o FormatNat(-n) ELSE FormatNat(n)

\* CommandStatus.message(error_code)
message(variant, error_code) ==
    IF error_code \in DOMAIN messages(variant)
    THEN messages(variant)[error_code]
    ELSE "error: Unknown error code " \o FormatInt(error_code)

\* the label table with NOT HOMED put in at 1 and the states after it not moved
labels_rockit_shifted ==
    (0 :> "DISABLED") @@ (1 :> "NOT HOMED") @@ (2 :> "PARKED") @@ (3 :> "STOPPED") @@
    (4 :> "SLEWING")

\* MountState._labels
labels_rockit ==
    (0 :> "DISABLED") @@ (1 :> "PARKED") @@ (2 :> "STOPPED") @@ (3 :> "SLEWING") @@
    (4 :> "TRACKING")

labels_warwick ==
    (0 :> "DISABLED") @@ (1 :> "STOPPED") @@ (2 :> "SLEWING") @@ (3 :> "TRACKING")

labels(variant) == IF variant = "rockit" THEN labels_rockit ELSE labels_warwick

\* the style table with a sixth state that the label table lacks
formats_rockit_extra ==
    (0 :> TFmt_Red \o TFmt_Bold) @@
    (1 :> TFmt_Yellow \o TFmt_Bold) @@
    (2 :> TFmt_Red \o TFmt_Bold) @@
    (3 :> TFmt_Yellow \o TFmt_Bold) @@
    (4 :> TFmt_Green \o TFmt_Bold) @@
    (5 :> TFmt_Yellow \o TFmt_Bold)

\* MountState._formats
formats_rockit ==
    (0 :> TFmt_Red \o TFmt_Bold) @@
    (1 :> TFmt_Yellow \o TFmt_Bold) @@
    (2 :> TFmt_Red \o TFmt_Bold) @@
    (3 :> TFmt_Yellow \o TFmt_Bold) @@
    (4 :> TFmt_Green \o TFmt_Bold)

formats_warwick ==
    (0 :> TFmt_Red \o TFmt_Bold) @@
    (1 :> TFmt_Red \o TFmt_Bold) @@
    (2 :> TFmt_Yellow \o TFmt_Bold) @@
    (3 :> TFmt_Green \o TFmt_Bold)

formats(variant) == IF variant = "rockit" THEN formats_rockit ELSE formats_warwick

Returns(s) == [raised |-> "none", ret |-> s]
Raises(e) == [raised |-> e, ret |-> ""]

\* label with the formatted text of a recognized state not closed by TFmt.Clear
label_unclosed(variant, status, formatting) ==
    IF formatting
    THEN IF status \in DOMAIN formats(variant) /\ status \in DOMAIN formats(variant)
         THEN IF status \in DOMAIN labels(variant)
              THEN Returns(formats(variant)[status] \o labels(variant)[status])
              ELSE Raises("KeyError")
         ELSE Returns(TFmt_Red \o TFmt_Bold \o "UNKNOWN" \o TFmt_Clear)
    ELSE IF status \in DOMAIN labels(variant)
         THEN Returns(labels(variant)[status])
         ELSE Returns("UNKNOWN")

\* MountState.label(status, formatting): what it returns, or the exception of a
\* dictionary subscript with a missing key
label(variant, status, formatting) ==
    IF formatting
    THEN IF status \in DOMAIN formats(variant) /\ status \in DOMAIN formats(variant)
         THEN IF status \in DOMAIN labels(variant)
              THEN Returns(formats(variant)[status] \o labels(variant)[status] \o TFmt_Clear)
              ELSE Raises("KeyError")
         ELSE Returns(TFmt_Red \o TFmt_Bold \o "UNKNOWN" \o TFmt_Clear)
    ELSE IF status \in DOMAIN labels(variant)
         THEN Returns(labels(variant)[status])
         ELSE Returns("UNKNOWN")

Codes == (-MaxCode..MaxCode) \cup {9999}
Statuses == (-MaxStatus..MaxStatus) \cup {99}

InitConst ==
    /\ file = "missing"
    /\ doc = ReferenceDoc
    /\ pc = "idle"
    /\ config_json = None
    /\ self = NoAttributes
    /\ error = "none"
    /\ returned = FALSE
    /\ stages = <<>>
    /\ call = NoCall

CallMessage ==
    /\ \E variant \in Variants, error_code \in Codes :
          call' = [fn |-> "message", variant |-> variant, arg |-> error_code,
                   formatting |-> FALSE, raised |-> "none",
                   ret |-> message(variant, error_code)]
    /\ UNCHANGED loadVars

CallLabel ==
    /\ \E variant \in Variants, status \in Statuses, formatting \in BOOLEAN :
          LET r == label(variant, status, formatting)
          IN  call' = [fn |-> "label", variant |-> variant, arg |-> status,
                       formatting |-> formatting, raised |-> r.raised, ret |-> r.ret]
    /\ UNCHANGED loadVars

NextConst ==
    \/ CallMessage
    \/ CallLabel

SpecConst == InitConst /\ [][NextConst]_vars

----------------------------------------------------------------------------
(* Properties of Config.__init__, checked under SpecLoad *)

\* The statements after validation have been reached
Constructing == pc \in {Attributes[i] : i \in 1..Len(Attributes)} \cup {"return", "done"}

\* load has not got past validation, and if it failed it failed on the schema
RejectedBySchema ==
    /\ ~returned
    /\ ~Constructing
    /\ pc = "failed" => error = "SchemaViolation"

Outside(v, lo, hi) == IsNumber(v) /\ (~NumGeq(v, lo) \/ ~NumLeq(v, hi))

LimitsOutside(d, k, lo, hi) ==
    /\ Has(d, k)
    /\ Get(d, k).type = "array"
    /\ \E i \in 1..Len(Get(d, k).items) : Outside(Get(d, k).items[i], lo, hi)

ParkOutside(d) ==
    /\ Has(d, "park_positions")
    /\ Get(d, "park_positions").type = "object"
    /\ \E i \in 1..Len(Get(d, "park_positions").items) :
          LET p == Get(d, "park_positions").items[i]
          IN  \/ Has(p, "alt") /\ Outside(Get(p, "alt"), 0, 90)
              \/ Has(p, "az") /\ Outside(Get(p, "az"), 0, 360)

OutOfRange(d) ==
    \/ LimitsOutside(d, "ha_soft_limits", -180, 180)
    \/ LimitsOutside(d, "dec_soft_limits", -90, 90)
    \/ ParkOutside(d)

\* C1: a document with an element of ha_soft_limits outside [-180,180], an
\* element of dec_soft_limits outside [-90,90], or a park position with alt
\* outside [0,90] or az outside [0,360] never yields a Config: load fails on
\* the schema.
C1_OutOfRangeRejected == (file = "json" /\ OutOfRange(doc)) => RejectedBySchema

TopLevelKeys ==
    {"daemon", "log_name", "control_machines", "pwi_host", "pwi_port", "pwi_timeout",
     "slew_timeout", "slew_poll_interval", "home_timeout", "home_poll_interval",
     "ha_soft_limits", "dec_soft_limits", "park_positions"}

KeysWrong(d) == d.type = "object" /\ Keys(d) # TopLevelKeys

\* C2: a parsed document that omits one of the 13 required top-level keys, or
\* holds a top-level key that is not one of them, fails on the schema: load
\* never gets to the assignments and no Config is returned.
C2_KeySetEnforced == (file = "json" /\ KeysWrong(doc)) => RejectedBySchema

C2_Witness ==
    /\ file = "json"
    /\ pc = "failed"
    /\ error = "SchemaViolation"
    /\ \/ Keys(doc) = TopLevelKeys \ {"park_positions"}
       \/ Keys(doc) = TopLevelKeys \cup {"comment"}

UnknownDaemon(d) ==
    /\ Has(d, "daemon")
    /\ Get(d, "daemon").type = "string"
    /\ Get(d, "daemon").str \notin DOMAIN daemons

UnknownMachine(d) ==
    /\ Has(d, "control_machines")
    /\ Get(d, "control_machines").type = "array"
    /\ \E i \in 1..Len(Get(d, "control_machines").items) :
          LET m == Get(d, "control_machines").items[i]
          IN  m.type = "string" /\ m.str \notin DOMAIN IP

\* C3: a daemon name or a control machine that its registry does not hold
\* makes load fail in validation, as a schema error: the getattr statements
\* are never reached with it, no AttributeError leaves load, and no Config is
\* returned.
C3_UnknownNameIsSchemaError ==
    (file = "json" /\ doc.type = "object" /\ (UnknownDaemon(doc) \/ UnknownMachine(doc)))
        => /\ RejectedBySchema
           /\ error # "AttributeError"
           /\ \A i \in 1..Len(stages) : stages[i] # "resolve"

C3_Witness ==
    /\ file = "json"
    /\ UnknownMachine(doc)
    /\ ~UnknownDaemon(doc)
    /\ pc = "failed"
    /\ error = "SchemaViolation"
    /\ stages = <<"open", "parse", "validate">>

\* The order of the stages: open, parse, validate, then the first name
\* resolution, then the first assignment
StagesInOrder ==
    \A i \in 1..Len(stages) :
        /\ i = 1 => stages[i] = "open"
        /\ i = 2 => stages[i] = "parse"
        /\ i = 3 => stages[i] = "validate"
        /\ i = 4 => stages[i] = "resolve"
        /\ i > 4 => stages[i] \in {"resolve", "assign"}

AllAttributes == {Attributes[i] : i \in 1..Len(Attributes)}

FieldsEqualJson ==
    /\ \A a \in AllAttributes \ {"daemon", "control_ips"} : self[a] = Get(doc, a)
    /\ self["daemon"] = daemons[Get(doc, "daemon").str]
    /\ Len(self["control_ips"]) = Len(Get(doc, "control_machines").items)
    /\ \A i \in 1..Len(self["control_ips"]) :
          self["control_ips"][i] = IP[Get(doc, "control_machines").items[i].str]

\* C5: for a file whose document passes the schema (its names registered),
\* load never raises, can always take its next step until it is done, and
\* when done every attribute equals the JSON value of its key; daemon is the
\* registry's handle of the name and control_ips the handles of
\* control_machines, in the same order and number.
C5_ValidDocumentLoadsFaithfully ==
    (file = "json" /\ validate_config(doc)) =>
        /\ pc # "failed"
        /\ pc # "done" => ENABLED NextLoad
        /\ pc = "done" => returned /\ DOMAIN self = AllAttributes /\ FieldsEqualJson

C5_Witness ==
    /\ pc = "done"
    /\ returned
    /\ Len(self["control_ips"]) = 2
    /\ self["control_ips"] = <<"ip<host_b>", "ip<host_a>">>
    /\ self["daemon"] = "daemon<planewave_mount>"

EmptyPwiHost(d) ==
    Has(d, "pwi_host") /\ Get(d, "pwi_host").type = "string" /\ Get(d, "pwi_host").str = ""

\* C6 as stated: a document whose pwi_host is the empty string fails on the
\* schema, so no Config has an empty pwi_host.
C6_EmptyHostRejected ==
    /\ (file = "json" /\ EmptyPwiHost(doc)) => RejectedBySchema
    /\ (returned /\ self["pwi_host"].type = "string") => self["pwi_host"].str # ""

\* C6 as amended: pwi_host must be a string, and the empty string is one: a
\* document whose pwi_host is not a string fails on the schema, so every
\* Config's pwi_host is a string, the one of the document; an otherwise valid
\* document whose pwi_host is the empty string loads.
C6_HostIsAnyString ==
    /\ (file = "json" /\ Has(doc, "pwi_host") /\ Get(doc, "pwi_host").type # "string")
          => RejectedBySchema
    /\ returned => self["pwi_host"].type = "string" /\ self["pwi_host"] = Get(doc, "pwi_host")
    /\ (file = "json" /\ EmptyPwiHost(doc) /\ validate_config(doc)) => pc # "failed"

C6_Witness ==
    /\ returned
    /\ EmptyPwiHost(doc)
    /\ self["pwi_host"].str = ""

----------------------------------------------------------------------------
(* Properties of CommandStatus.message and MountState.label, checked       *)
(* under SpecConst                                                         *)

\* The codes that have a message: 15 only in the rockit table, 12 only in the
\* warwick one
TableCodes(variant) ==
    {1, 2, 5, 9, 10, 11, 14, 20, 21, -100, -101, -102} \cup
    (IF variant = "rockit" THEN {15} ELSE {12})

\* The decimal numeral of n (|n| < 10000): a minus sign when n < 0, then the
\* digits of |n| by place value, without leading zeros
DecimalNumeral(n) ==
    LET a == IF n < 0 THEN -n ELSE n
        sign == IF n < 0 THEN "-" ELSE ""
        d == CHOOSE t \in (0..9) \X (0..9) \X (0..9) \X (0..9) :
                a = 1000 * t[1] + 100 * t[2] + 10 * t[3] + t[4]
    IN  sign \o (IF d[1] # 0 THEN Digit(d[1]) \o Digit(d[2]) \o Digit(d[3]) \o Digit(d[4])
                 ELSE IF d[2] # 0 THEN Digit(d[2]) \o Digit(d[3]) \o Digit(d[4])
                 ELSE IF d[3] # 0 THEN Digit(d[3]) \o Digit(d[4])
                 ELSE Digit(d[4]))

\* C7: message returns the table's string for a code of the table (for 1,
\* 'error: command failed') and, for every other integer, 0 and 9999 among
\* them, 'error: Unknown error code ' followed by the decimal numeral of the
\* code.
C7_MessageIsTotalLookup ==
    call.fn = "message" =>
        /\ call.raised = "none"
        /\ call.arg \in TableCodes(call.variant) =>
              /\ call.arg \in DOMAIN messages(call.variant)
              /\ call.ret = messages(call.variant)[call.arg]
        /\ call.arg = 1 => call.ret = "error: command failed"
        /\ call.arg = 0 => call.ret = "error: Unknown error code 0"
        /\ call.arg = 9999 => call.ret = "error: Unknown error code 9999"
        /\ call.arg \notin TableCodes(call.variant) =>
              call.ret = "error: Unknown error code " \o DecimalNumeral(call.arg)

C7_Witness ==
    /\ call.fn = "message"
    /\ call.arg = -7
    /\ call.ret = "error: Unknown error code -7"

\* C8: on the five-state (rockit) variant, without formatting, label returns
\* DISABLED, PARKED, STOPPED, SLEWING, TRACKING for 0..4 and UNKNOWN for every
\* other integer.
C8_PlainLabels ==
    (call.fn = "label" /\ call.variant = "rockit" /\ ~call.formatting) =>
        /\ call.raised = "none"
        /\ call.arg = 0 => call.ret = "DISABLED"
        /\ call.arg = 1 => call.ret = "PARKED"
        /\ call.arg = 2 => call.ret = "STOPPED"
        /\ call.arg = 3 => call.ret = "SLEWING"
        /\ call.arg = 4 => call.ret = "TRACKING"
        /\ call.arg \notin 0..4 => call.ret = "UNKNOWN"

C8_Witness ==
    /\ call.fn = "label"
    /\ call.variant = "rockit"
    /\ ~call.formatting
    /\ call.arg = 4
    /\ call.ret = "TRACKING"

\* The states each variant of MountState declares
States(variant) == IF variant = "rockit" THEN 0..4 ELSE 0..3

\* C9: with formatting, the label of a recognized state is its style prefix,
\* then its plain label, then TFmt.Clear (so it contains the plain label); the
\* label of any other state is red bold, then UNKNOWN, then TFmt.Clear.
C9_FormattedWrapsPlain ==
    (call.fn = "label" /\ call.formatting) =>
        LET plain == label(call.variant, call.arg, FALSE).ret
        IN  /\ call.raised = "none"
            /\ call.arg \in States(call.variant) =>
                  /\ plain # "UNKNOWN"
                  /\ call.ret = formats(call.variant)[call.arg] \o plain \o TFmt_Clear
                  /\ formats(call.variant)[call.arg] \in
                        {TFmt_Red \o TFmt_Bold, TFmt_Yellow \o TFmt_Bold,
                         TFmt_Green \o TFmt_Bold}
            /\ call.arg \notin States(call.variant) =>
                  /\ plain = "UNKNOWN"
                  /\ call.ret = TFmt_Red \o TFmt_Bold \o "UNKNOWN" \o TFmt_Clear

C9_Witness ==
    /\ call.fn = "label"
    /\ call.formatting
    /\ call.variant = "rockit"
    /\ call.arg = 3
    /\ call.ret = TFmt_Yellow \o TFmt_Bold \o "SLEWING" \o TFmt_Clear

\* C10: message and label raise nothing and return a string for every integer
\* and either value of the flag; the style table and the label table of a
\* variant have the same keys, so the formatted branch never subscripts the
\* label table with a key it lacks.
C10_NeverRaises ==
    /\ call.raised = "none"
    /\ call.ret \in STRING
    /\ call.fn # "none" => call.ret # ""
    /\ \A variant \in Variants : DOMAIN formats(variant) = DOMAIN labels(variant)

C10_Witness ==
    /\ call.fn = "label"
    /\ call.formatting
    /\ call.variant = "warwick"
    /\ call.arg \in DOMAIN formats("warwick")
    /\ call.raised = "none"
    /\ call.ret = TFmt_Red \o TFmt_Bold \o "STOPPED" \o TFmt_Clear

=============================================================================
